---- MODULE Spec2Model ----
(***************************************************************************)
(* snmp-trap-alertmanager: the alert identity / merge engine, the TTL      *)
(* alert cache (TrapDb), the clear operation and the Alertmanager relay    *)
(* loop, as a state machine.                                               *)
(*                                                                         *)
(* A Rust String is a sequence of one-character strings, so that prefix,  *)
(* suffix and substring operations are computed as the code computes them. *)
(***************************************************************************)
EXTENDS Integers, Sequences, FiniteSets, TLC

(***************************************************************************)
(* Characters and strings                                                  *)
(***************************************************************************)
Digits == <<"0", "1", "2", "3", "4", "5", "6", "7", "8", "9">>
Upper == <<"A", "B", "C", "D", "E", "F", "G", "H", "I", "J", "K", "L", "M",
           "N", "O", "P", "Q", "R", "S", "T", "U", "V", "W", "X", "Y", "Z">>
Lower == <<"a", "b", "c", "d", "e", "f", "g", "h", "i", "j", "k", "l", "m",
           "n", "o", "p", "q", "r", "s", "t", "u", "v", "w", "x", "y", "z">>

IndexIn(seq, c) == CHOOSE i \in 1..Len(seq) : seq[i] = c
IsIn(seq, c) == \E i \in 1..Len(seq) : seq[i] = c

\* The byte of an ASCII character (the order of String comparison and the
\* input of the hasher).
ByteOf(c) ==
    IF IsIn(Digits, c) THEN 47 + IndexIn(Digits, c)
    ELSE IF IsIn(Upper, c) THEN 64 + IndexIn(Upper, c)
    ELSE IF IsIn(Lower, c) THEN 96 + IndexIn(Lower, c)
    ELSE IF c = "\"" THEN 34
    ELSE IF c = "." THEN 46
    ELSE IF c = "_" THEN 95
    ELSE 32

\* char::to_lowercase on ASCII
LowerChar(c) == IF IsIn(Upper, c) THEN Lower[IndexIn(Upper, c)] ELSE c

\* str::to_lowercase
RECURSIVE to_lowercase(_)
to_lowercase(s) ==
    IF s = <<>> THEN <<>>
    ELSE <<LowerChar(Head(s))>> \o to_lowercase(Tail(s))

\* str::contains(pattern)
contains(s, pat) ==
    \E i \in 1..(Len(s) - Len(pat) + 1) : SubSeq(s, i, i + Len(pat) - 1) = pat

starts_with(s, p) == Len(p) <= Len(s) /\ SubSeq(s, 1, Len(p)) = p
ends_with(s, p) == Len(p) <= Len(s) /\ SubSeq(s, Len(s) - Len(p) + 1, Len(s)) = p

\* Ord for String: lexicographic on bytes
StrLess(a, b) ==
    \E i \in 1..(Len(b)) :
        /\ \A j \in 1..(i - 1) : j <= Len(a) /\ a[j] = b[j]
        /\ \/ i = Len(a) + 1
           \/ i <= Len(a) /\ ByteOf(a[i]) < ByteOf(b[i])

MinStr(S) == CHOOSE k \in S : \A o \in S : o = k \/ StrLess(k, o)

\* The keys of a BTreeMap in iteration order
RECURSIVE SortedKeys(_)
SortedKeys(S) ==
    IF S = {} THEN <<>>
    ELSE LET k == MinStr(S) IN <<k>> \o SortedKeys(S \ {k})

Range(seq) == {seq[i] : i \in 1..Len(seq)}

\* Every sequence that enumerates the finite set S once (an iteration order
\* of a HashSet, or the row order of a SELECT without ORDER BY)
RECURSIVE OrdersOf(_)
OrdersOf(S) ==
    IF S = {} THEN {<<>>}
    ELSE UNION {{<<x>> \o rest : rest \in OrdersOf(S \ {x})} : x \in S}

(***************************************************************************)
(* Severity  (alerts.rs)                                                   *)
(***************************************************************************)
Severities == {"Info", "Warning", "Critical"}

\* enum discriminants
SeverityDiscriminant(sev) ==
    CASE sev = "Info" -> 0
      [] sev = "Warning" -> 1
      [] sev = "Critical" -> 2

\* impl Display for Severity
SeverityToString(sev) ==
    CASE sev = "Info" -> <<"i", "n", "f", "o">>
      [] sev = "Warning" -> <<"w", "a", "r", "n", "i", "n", "g">>
      [] sev = "Critical" -> <<"c", "r", "i", "t", "i", "c", "a", "l">>

CRITICAL == {<<"c", "r", "i", "t">>, <<"e", "r", "r", "o", "r">>,
             <<"m", "a", "j", "o", "r">>, <<"h", "i", "g", "h">>}
WARN == {<<"w", "a", "r", "n">>, <<"m", "i", "n", "o", "r">>, <<"m", "i", "d">>}
INFO == {<<"i", "n", "f", "o">>, <<"n", "o", "r", "m", "a", "l">>,
         <<"d", "e", "b", "u", "g">>, <<"l", "o", "w">>}

\* impl FromStr for Severity: a Result, [ok |-> TRUE, val |-> severity] or
\* [ok |-> FALSE].  The INFO keywords yield Severity::Warning in the source.
SeverityFromStr(str) ==
    LET s == to_lowercase(str) IN
    IF \E c \in CRITICAL : contains(s, c) THEN [ok |-> TRUE, val |-> "Critical"]
    ELSE IF \E w \in WARN : contains(s, w) THEN [ok |-> TRUE, val |-> "Warning"]
    ELSE IF \E i \in INFO : contains(s, i) THEN [ok |-> TRUE, val |-> "Warning"]
    ELSE [ok |-> FALSE, val |-> "unknown severity"]

(***************************************************************************)
(* Alert identity and hash  (alerts.rs)                                    *)
(***************************************************************************)
\* DefaultHasher is a 64-bit keyed hash; the model folds the same writes, in
\* the same order, into a narrower accumulator.
HashWidth == 65521
HashWrite(h, byte) == (h * 31 + byte) % HashWidth

RECURSIVE HashBytes(_, _)
HashBytes(h, s) ==
    IF s = <<>> THEN h ELSE HashBytes(HashWrite(h, ByteOf(Head(s))), Tail(s))

\* impl Hash for str: the bytes, then 0xff
HashStr(h, s) == HashWrite(HashBytes(h, s), 255)

\* impl Hash for BTreeMap: the length, then every (key, value) in key order
RECURSIVE HashEntries(_, _, _)
HashEntries(h, labels, keys) ==
    IF keys = <<>> THEN h
    ELSE HashEntries(HashStr(HashStr(h, Head(keys)), labels[Head(keys)]),
                     labels, Tail(keys))

HashLabels(h, labels) ==
    HashEntries(HashWrite(h, Cardinality(DOMAIN labels)), labels,
                SortedKeys(DOMAIN labels))

\* impl Hash for Alert: name, severity, community, labels (not hash, not times)
AlertHashInto(h, alert) ==
    HashLabels(
        HashStr(
            HashWrite(HashStr(h, alert.name), SeverityDiscriminant(alert.severity)),
            alert.community),
        alert.labels)

\* impl PartialEq for Alert
AlertEq(a, b) ==
    /\ a.name = b.name
    /\ a.severity = b.severity
    /\ a.labels = b.labels
    /\ a.community = b.community

\* Alert::new
AlertNew(name, severity, community, times, labels) ==
    LET alert == [hash |-> 0, severity |-> severity, community |-> community,
                  name |-> name, times |-> times, labels |-> labels]
    IN [alert EXCEPT !.hash = AlertHashInto(0, alert)]

\* The identity tuple of the data model
Identity(a) == <<a.name, a.severity, a.community, a.labels>>

(***************************************************************************)
(* Merge engine  (alerts.rs, generate_alerts)                              *)
(***************************************************************************)
\* One iteration of the loop: HashSet::take, then insert
MergeStepDropTimes(alerts, alert) ==
    IF \E e \in alerts : AlertEq(e, alert) THEN alerts ELSE alerts \cup {alert}

MergeStepFirstTime(alerts, alert) ==
    LET found == {e \in alerts : AlertEq(e, alert)} IN
    IF found = {} THEN alerts \cup {[alert EXCEPT !.times = <<Head(alert.times)>>]}
    ELSE LET existing == CHOOSE e \in found : TRUE IN
         (alerts \ {existing})
            \cup {[existing EXCEPT !.times = existing.times \o alert.times]}

MergeStep(alerts, alert) ==
    LET found == {e \in alerts : AlertEq(e, alert)} IN
    IF found = {} THEN alerts \cup {alert}
    ELSE LET existing == CHOOSE e \in found : TRUE IN
         (alerts \ {existing})
            \cup {[existing EXCEPT !.times = existing.times \o alert.times]}

RECURSIVE MergeInto(_, _)
MergeInto(alerts, raw_alerts) ==
    IF raw_alerts = <<>> THEN alerts
    ELSE MergeInto(MergeStep(alerts, Head(raw_alerts)), Tail(raw_alerts))

generate_alerts(raw_alerts) == MergeInto({}, raw_alerts)

(***************************************************************************)
(* Rows of the snmp_trap table and their conversion  (alerts.rs)           *)
(***************************************************************************)
\* Option<T>
None == [some |-> FALSE, v |-> <<>>]
Some(x) == [some |-> TRUE, v |-> x]
NoTime == [some |-> FALSE, v |-> 0]

DROP_COLUMNS == {<<"m", "i", "b">>, <<"o", "i", "d">>,
                 <<"s", "o", "u", "r", "c", "e">>,
                 <<"v", "e", "r", "s", "i", "o", "n">>,
                 <<"s", "y", "s", "U", "p", "T", "i", "m", "e", ".", "0">>,
                 <<"h", "o", "s", "t">>}

SEVERITY == {<<"s", "e", "v", "e", "r", "i", "t", "y">>}

\* BTreeMap::new
EmptyMap == [x \in {} |-> <<>>]

\* the entries of the map m under the given keys, entry by entry
RECURSIVE Restrict(_, _)
Restrict(m, keys) ==
    IF keys = {} THEN EmptyMap
    ELSE LET k == CHOOSE k \in keys : TRUE IN
         (k :> m[k]) @@ Restrict(m, keys \ {k})

\* BTreeMap::insert / BTreeMap::remove
Put(m, k, val) == (k :> val) @@ m
Remove(m, k) == Restrict(m, (DOMAIN m) \ {k})

\* extract_severity: the first key (in map order) that contains "severity";
\* the key is removed only when its value parses.
\* Result: [severity |-> Option<Severity>, labels |-> the map afterwards]
extract_severity(labels) ==
    LET hits == {k \in DOMAIN labels :
                    \E sv \in SEVERITY : contains(to_lowercase(k), sv)} IN
    IF hits = {} THEN [severity |-> None, labels |-> labels]
    ELSE LET k == MinStr(hits)
             parsed == SeverityFromStr(labels[k])
         IN IF ~parsed.ok THEN [severity |-> None, labels |-> labels]
            ELSE [severity |-> Some(parsed.val), labels |-> Remove(labels, k)]

\* impl TryFrom<&PgRow> for Alert.  A row is
\* [name, community : Option<String>, time : Option<time>,
\*  cols : column name -> Option<String>]; a NULL or absent mandatory column
\* is an Err, a NULL or empty other column is no label.
RowToAlert(row) ==
    LET labelCols == {c \in (DOMAIN row.cols) \ DROP_COLUMNS :
                         row.cols[c].some /\ row.cols[c].v # <<>>}
        labels == Restrict([c \in DOMAIN row.cols |-> row.cols[c].v], labelCols)
        ex == extract_severity(labels)
        severity == IF ex.severity.some THEN ex.severity.v ELSE "Critical"
    IN IF ~row.name.some \/ ~row.community.some \/ ~row.time.some
       THEN [ok |-> FALSE, val |-> {}]
       ELSE [ok |-> TRUE,
             val |-> {AlertNew(row.name.v, severity, row.community.v,
                               <<row.time.v>>, ex.labels)}]

\* a conversion that gives up at the first row that fails
RECURSIVE ConvertRowsUntilErr(_)
ConvertRowsUntilErr(traps) ==
    IF traps = <<>> THEN <<>>
    ELSE IF ~RowToAlert(Head(traps)).ok THEN <<>>
    ELSE <<CHOOSE a \in RowToAlert(Head(traps)).val : TRUE>>
            \o ConvertRowsUntilErr(Tail(traps))

\* map_traps_to_alerts: the rows that convert, merged
RECURSIVE ConvertRows(_)
ConvertRows(traps) ==
    IF traps = <<>> THEN <<>>
    ELSE LET r == RowToAlert(Head(traps)) IN
         IF r.ok THEN <<CHOOSE a \in r.val : TRUE>> \o ConvertRows(Tail(traps))
         ELSE ConvertRows(Tail(traps))

map_traps_to_alerts(traps) == generate_alerts(ConvertRows(traps))

(***************************************************************************)
(* Label sanitizer and name cleanup  (sanitize.rs)                         *)
(***************************************************************************)
Min(a, b) == IF a <= b THEN a ELSE b

\* the zip loop of find_greedy_label_prefix: the leading equal characters
CommonPrefix(common, k) ==
    LET m == Min(Len(common), Len(k))
        n == CHOOSE n \in 0..m :
                /\ \A i \in 1..n : common[i] = k[i]
                /\ (n = m \/ common[n + 1] # k[n + 1])
    IN SubSeq(common, 1, n)

RECURSIVE Reverse(_)
Reverse(s) == IF s = <<>> THEN <<>> ELSE Append(Reverse(Tail(s)), Head(s))

\* a fold that finds no common suffix
NoCommonSuffix(common, k) == <<>>

CommonSuffix(common, k) == Reverse(CommonPrefix(Reverse(common), Reverse(k)))

RECURSIVE FoldPrefix(_, _)
FoldPrefix(common, keys) ==
    IF keys = <<>> THEN common
    ELSE FoldPrefix(CommonPrefix(common, Head(keys)), Tail(keys))

RECURSIVE FoldSuffix(_, _)
FoldSuffix(common, keys) ==
    IF keys = <<>> THEN common
    ELSE FoldSuffix(CommonSuffix(common, Head(keys)), Tail(keys))

\* a prefix search that leaves the key of a single label alone
PrefixOfSeveralKeys(labels) ==
    IF Cardinality(DOMAIN labels) <= 1 THEN <<>>
    ELSE FoldPrefix(Head(SortedKeys(DOMAIN labels)), SortedKeys(DOMAIN labels))

find_greedy_label_prefix(labels) ==
    LET keys == SortedKeys(DOMAIN labels) IN
    IF keys = <<>> THEN <<>> ELSE FoldPrefix(Head(keys), keys)

find_greedy_label_suffix(labels) ==
    LET keys == SortedKeys(DOMAIN labels) IN
    IF keys = <<>> THEN <<>> ELSE FoldSuffix(Head(keys), keys)

\* str::trim_start_matches / trim_end_matches: the pattern is removed as
\* often as it repeats; the empty pattern removes nothing.
RECURSIVE trim_start_matches(_, _)
trim_start_matches(s, pat) ==
    IF pat # <<>> /\ starts_with(s, pat)
    THEN trim_start_matches(SubSeq(s, Len(pat) + 1, Len(s)), pat)
    ELSE s

RECURSIVE trim_end_matches(_, _)
trim_end_matches(s, pat) ==
    IF pat # <<>> /\ ends_with(s, pat)
    THEN trim_end_matches(SubSeq(s, 1, Len(s) - Len(pat)), pat)
    ELSE s

\* new_labels.insert(..) for every (k, v) in key order: of the keys renamed
\* to the same string, the last one inserted stays.
\* an insert that keeps the entry a key already has
RECURSIVE InsertRenamedKeepFirst(_, _, _, _)
InsertRenamedKeepFirst(new_labels, labels, keys, renamed) ==
    IF keys = <<>> THEN new_labels
    ELSE InsertRenamedKeepFirst(
            IF renamed[Head(keys)] \in DOMAIN new_labels THEN new_labels
            ELSE Put(new_labels, renamed[Head(keys)], labels[Head(keys)]),
            labels, Tail(keys), renamed)

RECURSIVE InsertRenamed(_, _, _, _)
InsertRenamed(new_labels, labels, keys, renamed) ==
    IF keys = <<>> THEN new_labels
    ELSE InsertRenamed(Put(new_labels, renamed[Head(keys)], labels[Head(keys)]),
                       labels, Tail(keys), renamed)

\* greedy_truncate_labels_prefix: the map it leaves in `labels`
greedy_truncate_labels_prefix(labels) ==
    LET prefix == find_greedy_label_prefix(labels) IN
    InsertRenamed(EmptyMap, labels, SortedKeys(DOMAIN labels),
                  [k \in DOMAIN labels |-> trim_start_matches(k, prefix)])

\* greedy_truncate_labels_suffix: the map it leaves in `labels`
greedy_truncate_labels_suffix(labels) ==
    LET suffix == find_greedy_label_suffix(labels) IN
    InsertRenamed(EmptyMap, labels, SortedKeys(DOMAIN labels),
                  [k \in DOMAIN labels |-> trim_end_matches(k, suffix)])

Trap == <<"T", "r", "a", "p">>

clean_alert_name(name) ==
    IF ends_with(name, Trap) THEN trim_end_matches(name, Trap) ELSE name

\* Alert::pretty_name / Alert::pretty_labels
pretty_name(alert) == clean_alert_name(alert.name)
pretty_labels(alert) ==
    greedy_truncate_labels_suffix(greedy_truncate_labels_prefix(alert.labels))

\* Alert::earliest (times is never empty for an alert built from a row)
MinOf(seq) == CHOOSE t \in Range(seq) : \A o \in Range(seq) : t <= o
earliest(alert) == MinOf(alert.times)

(***************************************************************************)
(* Configuration  (config.rs)                                              *)
(***************************************************************************)
\* alertmanager_community_label, default "community"
CommunityLabel == <<"c", "o", "m", "m", "u", "n", "i", "t", "y">>

(***************************************************************************)
(* Outbound alert  (alertmanager.rs)                                       *)
(***************************************************************************)
ALERTNAME == <<"a", "l", "e", "r", "t", "n", "a", "m", "e">>
SEVERITY_LABEL == <<"s", "e", "v", "e", "r", "i", "t", "y">>

\* AlertmanagerAlert::new
AlertmanagerAlertNew(starts_at, ends_at, name, community, severity, labels, annotations) ==
    [starts_at |-> starts_at,
     ends_at |-> ends_at,
     labels |-> Put(Put(Put(labels, ALERTNAME, name),
                        SEVERITY_LABEL, SeverityToString(severity)),
                    CommunityLabel, community),
     annotations |-> annotations]

\* OffsetDateTime::now_utc() + CONFIG.alertmanager_announce_duration() * 3
EndsAt == "now + 3 * announce duration"

\* impl From<&Alert> for AlertmanagerAlert
AlertmanagerAlertFrom(alert) ==
    AlertmanagerAlertNew(earliest(alert), EndsAt, pretty_name(alert),
                         alert.community, alert.severity, pretty_labels(alert),
                         EmptyMap)

\* AlertmanagerAlert::name
AlertName(am) == IF ALERTNAME \in DOMAIN am.labels THEN am.labels[ALERTNAME] ELSE <<>>

is_restricted_label(name) ==
    name = ALERTNAME \/ name = SEVERITY_LABEL \/ name = CommunityLabel

add_label(am, name, value) ==
    IF is_restricted_label(name) THEN am
    ELSE [am EXCEPT !.labels = Put(am.labels, name, value)]

RECURSIVE AddLabelsIn(_, _, _)
AddLabelsIn(am, labels, keys) ==
    IF keys = <<>> THEN am
    ELSE AddLabelsIn(add_label(am, Head(keys), labels[Head(keys)]), labels, Tail(keys))

\* add_labels: the entries are distinct keys, so their order is immaterial
add_labels(am, labels) == AddLabelsIn(am, labels, SortedKeys(DOMAIN labels))

\* remove_label without its guard
RemoveLabelUnguarded(am, name) == [am EXCEPT !.labels = Remove(am.labels, name)]

remove_label(am, name) ==
    IF is_restricted_label(name) THEN am
    ELSE [am EXCEPT !.labels = Remove(am.labels, name)]

add_annotation(am, name, value) ==
    [am EXCEPT !.annotations = Put(am.annotations, name, value)]

RECURSIVE AddAnnotationsIn(_, _, _)
AddAnnotationsIn(am, labels, keys) ==
    IF keys = <<>> THEN am
    ELSE AddAnnotationsIn(add_annotation(am, Head(keys), labels[Head(keys)]),
                          labels, Tail(keys))

add_annotations(am, labels) == AddAnnotationsIn(am, labels, SortedKeys(DOMAIN labels))

(***************************************************************************)
(* Regular expressions (regex crate, leftmost-first) and templates (tera)  *)
(***************************************************************************)
\* Patterns: a literal character, `.`, concatenation, alternation, greedy `*`
ReLit(c) == [op |-> "lit", c |-> c]
ReAny == [op |-> "any"]
ReCat(l, r) == [op |-> "cat", l |-> l, r |-> r]
ReAlt(l, r) == [op |-> "alt", l |-> l, r |-> r]
ReStar(x) == [op |-> "star", x |-> x]

\* The ends of the matches of `re` that start after `i` characters of `s`, in
\* the order in which a backtracking matcher prefers them.
RECURSIVE MatchEnds(_, _, _)
RECURSIVE MatchEndsFrom(_, _, _)
RECURSIVE StarEndsFrom(_, _, _, _)
MatchEnds(re, s, i) ==
    CASE re.op = "lit" -> IF i < Len(s) /\ s[i + 1] = re.c THEN <<i + 1>> ELSE <<>>
      [] re.op = "any" -> IF i < Len(s) THEN <<i + 1>> ELSE <<>>
      [] re.op = "cat" -> MatchEndsFrom(re.r, s, MatchEnds(re.l, s, i))
      [] re.op = "alt" -> MatchEnds(re.l, s, i) \o MatchEnds(re.r, s, i)
      [] re.op = "star" -> StarEndsFrom(re, s, MatchEnds(re.x, s, i), i) \o <<i>>

MatchEndsFrom(re, s, starts) ==
    IF starts = <<>> THEN <<>>
    ELSE MatchEnds(re, s, Head(starts)) \o MatchEndsFrom(re, s, Tail(starts))

StarEndsFrom(re, s, starts, i) ==
    IF starts = <<>> THEN <<>>
    ELSE (IF Head(starts) > i THEN MatchEnds(re, s, Head(starts)) ELSE <<>>)
            \o StarEndsFrom(re, s, Tail(starts), i)

\* Regex::find_at(text, 0): the leftmost match, the preferred one at that start
find_at(re, text) ==
    LET hits == {st \in 0..Len(text) : MatchEnds(re, text, st) # <<>>} IN
    IF hits = {} THEN [some |-> FALSE, start |-> 0, end |-> 0]
    ELSE LET st == CHOOSE x \in hits : \A y \in hits : x <= y IN
         [some |-> TRUE, start |-> st, end |-> Head(MatchEnds(re, text, st))]

\* find_at(..).is_some_and(|m| m.len() == text.len())
FullyMatches(re, text) ==
    LET m == find_at(re, text) IN m.some /\ m.end - m.start = Len(text)

\* A template is a sequence of parts: literal text, or {{ labels.<key> }}
TplText(t) == [kind |-> "text", text |-> t, key |-> <<>>]
TplLabel(k) == [kind |-> "label", text |-> <<>>, key |-> k]

\* Tera::render against the context {"labels": labels}: a Result
RECURSIVE Render(_, _)
Render(template, labels) ==
    IF template = <<>> THEN [ok |-> TRUE, val |-> <<>>]
    ELSE LET part == Head(template)
             rest == Render(Tail(template), labels)
         IN IF part.kind = "label" /\ part.key \notin DOMAIN labels
            THEN [ok |-> FALSE, val |-> <<>>]
            ELSE IF ~rest.ok THEN rest
            ELSE [ok |-> TRUE,
                  val |-> (IF part.kind = "text" THEN part.text
                           ELSE labels[part.key]) \o rest.val]

(***************************************************************************)
(* Enrichment rules  (enrichment.rs)                                       *)
(***************************************************************************)
SomeMap(m) == [some |-> TRUE, v |-> m]
NoMap == [some |-> FALSE, v |-> EmptyMap]
SomeList(l) == [some |-> TRUE, v |-> l]
NoList == [some |-> FALSE, v |-> <<>>]

\* Option::unwrap_or_default
UnwrapOrDefault(opt) == opt.v

\* AlertEnrichmentDefinition::new(name, annotations, labels, drop_labels)
DefinitionNew(name, annotations, labels, drop_labels) ==
    [name |-> name,
     label_templates |-> UnwrapOrDefault(labels),
     annotation_templates |-> UnwrapOrDefault(annotations),
     drop_labels |-> UnwrapOrDefault(drop_labels)]

\* impl TryFrom<RawAlertEnrichmentDefinition>: the arguments as the source
\* passes them
DefinitionTryFrom(raw) ==
    DefinitionNew(raw.name, raw.labels, raw.annotations, raw.drop_labels)

\* load_directory: the definitions of the files, in order
LoadDefinitions(raws) == [i \in 1..Len(raws) |-> DefinitionTryFrom(raws[i])]

applies_to(def, am) == FullyMatches(def.name, AlertName(am))

\* generate_labels: every template rendered against the alert's current
\* labels; the first failure is the result
generate_labels(templates, am) ==
    IF \E n \in DOMAIN templates : ~Render(templates[n], am.labels).ok
    THEN [ok |-> FALSE, val |-> EmptyMap]
    ELSE [ok |-> TRUE,
          val |-> [n \in DOMAIN templates |-> Render(templates[n], am.labels).val]]

\* the drop loop of apply: each pattern removes the first label name (of the
\* names collected before the loop, in order) that it fully matches
RECURSIVE DropLabels(_, _, _)
DropLabels(am, drop_labels, label_names) ==
    IF drop_labels = <<>> THEN am
    ELSE LET rgx == Head(drop_labels)
             hits == {i \in 1..Len(label_names) : FullyMatches(rgx, label_names[i])}
             next == IF hits = {} THEN am
                     ELSE remove_label(am,
                            label_names[CHOOSE i \in hits : \A j \in hits : i <= j])
         IN DropLabels(next, Tail(drop_labels), label_names)

\* AlertEnrichmentDefinition::apply: [ok, applied, alert]; on Err the alert
\* keeps what was added before the failing render
apply(def, am) ==
    IF ~applies_to(def, am) THEN [ok |-> TRUE, applied |-> FALSE, alert |-> am]
    ELSE LET labels == generate_labels(def.label_templates, am) IN
         IF ~labels.ok THEN [ok |-> FALSE, applied |-> FALSE, alert |-> am]
         ELSE LET am1 == add_labels(am, labels.val)
                  annotations == generate_labels(def.annotation_templates, am1)
              IN IF ~annotations.ok
                 THEN [ok |-> FALSE, applied |-> FALSE, alert |-> am1]
                 ELSE LET am2 == add_annotations(am1, annotations.val) IN
                      [ok |-> TRUE, applied |-> TRUE,
                       alert |-> DropLabels(am2, def.drop_labels,
                                            SortedKeys(DOMAIN am2.labels))]

\* AlertEnrichment::apply_all: `?` returns at the first failing definition
RECURSIVE apply_all(_, _)
apply_all(defs, am) ==
    IF defs = <<>> THEN [ok |-> TRUE, alert |-> am]
    ELSE LET r == apply(Head(defs), am) IN
         IF ~r.ok THEN [ok |-> FALSE, alert |-> r.alert]
         ELSE apply_all(Tail(defs), r.alert)

\* AlertmanagerRelay::enrich: `?` returns at the first failing alert
RECURSIVE enrich(_, _)
enrich(defs, alerts) ==
    IF alerts = <<>> THEN [ok |-> TRUE, alerts |-> <<>>]
    ELSE LET r == apply_all(defs, Head(alerts)) IN
         IF ~r.ok THEN [ok |-> FALSE, alerts |-> <<r.alert>> \o Tail(alerts)]
         ELSE LET rest == enrich(defs, Tail(alerts)) IN
              [ok |-> rest.ok, alerts |-> <<r.alert>> \o rest.alerts]

\* alerts_to_alertmanager, over the alerts in the given iteration order
alerts_to_alertmanager(alerts) ==
    [i \in 1..Len(alerts) |-> AlertmanagerAlertFrom(alerts[i])]

(***************************************************************************)
(* The data source and the loaded rules of the model                      *)
(***************************************************************************)
UpTrap == <<"u", "p", "T", "r", "a", "p">>
Dn == <<"d", "n">>
CommunityC1 == <<"c", "1">>
IfIx == <<"i", "f", "I", "x">>
IfOp == <<"i", "f", "O", "p">>
IfSeverity == <<"i", "f", "S", "e", "v", "e", "r", "i", "t", "y">>
Host == <<"h", "o", "s", "t">>

TrapRow(name, community, time, ix, op, sev) ==
    [name |-> name, community |-> community, time |-> time,
     cols |-> (IfIx :> ix @@ IfOp :> op @@ IfSeverity :> sev
                 @@ Host :> Some(<<"h">>))]

RowUp == TrapRow(Some(UpTrap), Some(CommunityC1), [some |-> TRUE, v |-> 1],
                 Some(<<"1">>), None, Some(<<"m", "a", "j", "o", "r">>))
RowDn == TrapRow(Some(Dn), Some(CommunityC1), [some |-> TRUE, v |-> 2],
                 Some(<<"2">>), Some(<<"x">>), Some(<<"m", "i", "n", "o", "r">>))

\* the rows that can be in the snmp_trap table
TrapPool == {RowUp, RowDn}

\* make_label_query: the rows the DELETE statement removes.  A label whose
\* name contains a double quote is left out of the filter.
RowMatchesDelete(row, alert) ==
    /\ row.name = Some(alert.name)
    /\ row.community = Some(alert.community)
    /\ \A k \in DOMAIN alert.labels :
          contains(k, <<"\"">>) \/
             (k \in DOMAIN row.cols /\ row.cols[k] = Some(alert.labels[k]))

Site == <<"s", "i", "t", "e">>
Loc == <<"l", "o", "c">>

\* the rule files of the alert directory
RuleFiles ==
    << [name |-> ReStar(ReAny),
        labels |-> SomeMap(Site :> <<TplText(<<"s">>)>>),
        annotations |-> NoMap,
        drop_labels |-> NoList],
       [name |-> ReCat(ReLit("u"), ReLit("p")),
        labels |-> NoMap,
        annotations |-> SomeMap(Loc :> <<TplLabel(<<"O", "p">>)>>),
        drop_labels |-> SomeList(<<ReCat(ReLit("I"), ReLit("x"))>>)] >>

\* AlertmanagerRelay::new: self.enrichment
definitions == LoadDefinitions(RuleFiles)

(***************************************************************************)
(* State                                                                   *)
(***************************************************************************)
\* The tasks that run concurrently: the relay task spawned by
\* start_relay_thread and a web worker that serves one request at a time
WebTasks == {"w1"}
Tasks == WebTasks \cup {"relay"}

VARIABLES
    db,                 \* the rows of the snmp_trap table
    cached_alerts,      \* TrapDb.cached_alerts: the HashSet behind the RwLock
    cached_from,        \* history: the rows whose fetch produced cached_alerts
    last_update,        \* TrapDb.last_update, as what the code asks of it:
                        \* "stale" when last_update.elapsed() > 5 s, else
                        \* "fresh"
    readers,            \* the tasks that hold a read guard of cached_alerts
    last_announce_try,  \* AlertmanagerRelay.last_announce_try, as what the
                        \* code asks of it: "elapsed" when the instant
                        \* last_announce_try + announce duration is reached,
                        \* else "recent"
    since_attempt,      \* history: "elapsed" when a whole announce duration
                        \* has passed since the last relay attempt ended (or
                        \* none was made yet), else "recent"
    task,               \* per task: position and locals
    m_pc, raw_alerts, merged, remerged,  \* merge engine, run on its own
    rule_files,         \* enrichment on its own: the raw definitions of the
                        \* rule files, in load order
    e_pc,               \* position in the loop of apply_all
    e_k,                \* the number of definitions the loop has gone through
    e_start,            \* history: the outbound alert as converted
    e_prev,             \* history: the alert before the last definition
    e_alert,            \* the outbound alert that apply_all mutates
    e_res,              \* history: what the last apply returned:
                        \* "Ok(false)", "Ok(true)" or "Err"
    c_pc, c_in, c_mid, c_out   \* a conversion on its own: its input, the
                        \* value between its two passes, and its result

cacheVars == <<db, cached_alerts, cached_from, last_update, readers,
               last_announce_try, since_attempt, task>>
mergeVars == <<m_pc, raw_alerts, merged, remerged>>
enrichVars == <<rule_files, e_pc, e_k, e_start, e_prev, e_alert, e_res>>
convertVars == <<c_pc, c_in, c_mid, c_out>>
vars == <<db, cached_alerts, cached_from, last_update, readers,
          last_announce_try, since_attempt, task, m_pc, raw_alerts, merged,
          remerged, rule_files, e_pc, e_k, e_start, e_prev, e_alert, e_res,
          c_pc, c_in, c_mid, c_out>>

\* A task's locals.  op: the handler that runs; forced: inside the
\* update_cache call of clear_alerts; alerts: the Ok value of fetch_alerts;
\* rows: the rows that fetch returned; view: the set seen through the guard
\* (clear_alerts: its clone); target: the alert found by hash; alerts_data:
\* the outbound batch; result: what the handler returned.  A local is
\* emptied where the code moves or drops it.  The flags record what the call
\* did: fetch_failed (a fetch of this call was Err), missed (the hash matched
\* no alert), delete_issued, delete_ok, refreshed (update_cache ran after the
\* delete), render_failed (a template failed to render), posted (the POST
\* was sent).
IdleTask(pc) ==
    [pc |-> pc, op |-> "none", hash |-> 0, forced |-> FALSE, alerts |-> {},
     rows |-> {}, view |-> {}, target |-> {}, alerts_data |-> <<>>,
     result |-> "none", fetch_failed |-> FALSE, missed |-> FALSE,
     delete_issued |-> FALSE, delete_ok |-> FALSE, refreshed |-> FALSE,
     render_failed |-> FALSE, posted |-> FALSE]

\* the hashes a client can post to /api/clear
PoolAlerts == UNION {RowToAlert(r).val : r \in TrapPool}
UnknownHash == 0
ClientHashes == {a.hash : a \in PoolAlerts} \cup {UnknownHash}

CacheInit ==
    /\ db \in SUBSET TrapPool
    /\ cached_alerts = {}
    /\ cached_from = {}
    /\ last_update = "stale"
    /\ readers = {}
    /\ last_announce_try = "elapsed"
    /\ since_attempt = "elapsed"
    /\ task = [t \in Tasks |-> IdleTask(IF t = "relay" THEN "sleep" ELSE "idle")]

MergeIdle ==
    /\ m_pc = "off"
    /\ raw_alerts = <<>>
    /\ merged = {}
    /\ remerged = {}

EnrichIdle ==
    /\ rule_files = <<>>
    /\ e_pc = "off"
    /\ e_k = 0
    /\ e_start = {}
    /\ e_prev = {}
    /\ e_alert = {}
    /\ e_res = "none"

ConvertIdle ==
    /\ c_pc = "off"
    /\ c_in = <<>>
    /\ c_mid = <<>>
    /\ c_out = <<>>

Init == CacheInit /\ MergeIdle /\ EnrichIdle /\ ConvertIdle

(***************************************************************************)
(* Operations                                                              *)
(***************************************************************************)
Set(t, rec) == task' = [task EXCEPT ![t] = rec]

\* a cached_alerts that goes for the read guard without looking at last_update
EnterWithoutStalenessCheck(rec) == [rec EXCEPT !.pc = "read"]

\* cached_alerts: last_update.read().await.elapsed() > 5 s decides whether
\* update_cache is called before the read guard is taken
EnterCachedAlerts(rec) ==
    [rec EXCEPT !.pc = IF last_update = "stale" THEN "fetch" ELSE "read"]

\* GET / : alerts_view calls db.cached_alerts()
StartView(t) ==
    /\ t \in WebTasks
    /\ task[t].pc = "idle"
    /\ Set(t, EnterCachedAlerts([IdleTask("idle") EXCEPT !.op = "view"]))
    /\ UNCHANGED <<db, cached_alerts, cached_from, last_update, readers,
                   last_announce_try, since_attempt, mergeVars, enrichVars, convertVars>>

\* POST /api/clear : clear_alert calls clear_alerts(hash), which calls
\* self.cached_alerts()
StartClear(t, hash) ==
    /\ t \in WebTasks
    /\ task[t].pc = "idle"
    /\ Set(t, EnterCachedAlerts([IdleTask("idle") EXCEPT !.op = "clear",
                                                         !.hash = hash]))
    /\ UNCHANGED <<db, cached_alerts, cached_from, last_update, readers,
                   last_announce_try, since_attempt, mergeVars, enrichVars, convertVars>>

\* run_relay_blocking: sleep_until(last_announce_try + announce duration)
\* returns and relay_alerts calls self.db.cached_alerts()
RelayWake ==
    /\ task["relay"].pc = "sleep"
    /\ last_announce_try = "elapsed"
    /\ Set("relay", EnterCachedAlerts([IdleTask("sleep") EXCEPT !.op = "relay"]))
    /\ UNCHANGED <<db, cached_alerts, cached_from, last_update, readers,
                   last_announce_try, since_attempt, mergeVars, enrichVars, convertVars>>

\* Where update_cache returns to: clear_alerts returns Ok(()) after its own
\* call, cached_alerts goes on to take the read guard.
AfterUpdate(rec) ==
    IF rec.forced THEN [rec EXCEPT !.pc = "done", !.result = "Ok"]
    ELSE [rec EXCEPT !.pc = "read"]

\* update_cache: fetch_alerts() is Ok(alerts)
FetchOk(t) ==
    /\ task[t].pc = "fetch"
    /\ \E traps \in OrdersOf(db) :
          Set(t, [task[t] EXCEPT !.pc = "write_set",
                                 !.alerts = map_traps_to_alerts(traps),
                                 !.rows = db,
                                 !.refreshed = task[t].forced])
    /\ UNCHANGED <<db, cached_alerts, cached_from, last_update, readers,
                   last_announce_try, since_attempt, mergeVars, enrichVars, convertVars>>

\* update_cache: fetch_alerts() is Err: logged, nothing written
FetchErrClearsCache(t) ==
    /\ task[t].pc = "fetch"
    /\ readers = {}
    /\ cached_alerts' = {}
    /\ cached_from' = {}
    /\ Set(t, AfterUpdate([task[t] EXCEPT !.fetch_failed = TRUE,
                                          !.refreshed = task[t].forced]))
    /\ UNCHANGED <<db, last_update, readers, last_announce_try, since_attempt,
                   mergeVars, enrichVars, convertVars>>

FetchErr(t) ==
    /\ task[t].pc = "fetch"
    /\ Set(t, AfterUpdate([task[t] EXCEPT !.fetch_failed = TRUE,
                                          !.refreshed = task[t].forced]))
    /\ UNCHANGED <<db, cached_alerts, cached_from, last_update, readers,
                   last_announce_try, since_attempt, mergeVars, enrichVars, convertVars>>

\* update_cache: *self.cached_alerts.write().await = alerts
WriteSetMerges(t) ==
    /\ task[t].pc = "write_set"
    /\ readers = {}
    /\ cached_alerts' = cached_alerts \cup task[t].alerts
    /\ cached_from' = task[t].rows
    /\ Set(t, [task[t] EXCEPT !.pc = "write_time", !.alerts = {}, !.rows = {}])
    /\ UNCHANGED <<db, last_update, readers, last_announce_try, since_attempt,
                   mergeVars, enrichVars, convertVars>>

WriteSet(t) ==
    /\ task[t].pc = "write_set"
    /\ readers = {}
    /\ cached_alerts' = task[t].alerts
    /\ cached_from' = task[t].rows
    /\ Set(t, [task[t] EXCEPT !.pc = "write_time", !.alerts = {}, !.rows = {}])
    /\ UNCHANGED <<db, last_update, readers, last_announce_try, since_attempt,
                   mergeVars, enrichVars, convertVars>>

\* update_cache: *self.last_update.write().await = Instant::now()
WriteTime(t) ==
    /\ task[t].pc = "write_time"
    /\ last_update' = "fresh"
    /\ Set(t, AfterUpdate(task[t]))
    /\ UNCHANGED <<db, cached_alerts, cached_from, readers, last_announce_try,
                   since_attempt, mergeVars, enrichVars, convertVars>>

\* cached_alerts: self.cached_alerts.read().await, the guard is returned
ReadGuard(t) ==
    /\ task[t].pc = "read"
    /\ readers' = readers \cup {t}
    /\ Set(t, [task[t] EXCEPT !.pc = "holding", !.view = cached_alerts])
    /\ UNCHANGED <<db, cached_alerts, cached_from, last_update,
                   last_announce_try, since_attempt, mergeVars, enrichVars, convertVars>>

\* alerts_view: the AlertViews are collected, the guard is dropped, the page
\* is rendered
ViewRender(t) ==
    /\ task[t].pc = "holding"
    /\ task[t].op = "view"
    /\ readers' = readers \ {t}
    /\ Set(t, [task[t] EXCEPT !.pc = "done", !.result = "Ok", !.view = {}])
    /\ UNCHANGED <<db, cached_alerts, cached_from, last_update,
                   last_announce_try, since_attempt, mergeVars, enrichVars, convertVars>>

\* clear_alerts: the set is cloned, the guard dropped, the alert looked up by
\* hash; no alert with that hash: Ok(())
ClearLookupMissIsErr(t) ==
    /\ task[t].pc = "holding"
    /\ task[t].op = "clear"
    /\ readers' = readers \ {t}
    /\ LET found == {a \in task[t].view : a.hash = task[t].hash} IN
       IF found = {}
       THEN Set(t, [task[t] EXCEPT !.pc = "done", !.result = "Err",
                                   !.view = {}, !.missed = TRUE])
       ELSE \E alert \in found :
               Set(t, [task[t] EXCEPT !.pc = "delete", !.target = {alert},
                                      !.view = {}])
    /\ UNCHANGED <<db, cached_alerts, cached_from, last_update,
                   last_announce_try, since_attempt, mergeVars, enrichVars, convertVars>>

ClearLookup(t) ==
    /\ task[t].pc = "holding"
    /\ task[t].op = "clear"
    /\ readers' = readers \ {t}
    /\ LET found == {a \in task[t].view : a.hash = task[t].hash} IN
       IF found = {}
       THEN Set(t, [task[t] EXCEPT !.pc = "done", !.result = "Ok",
                                   !.view = {}, !.missed = TRUE])
       ELSE \E alert \in found :
               Set(t, [task[t] EXCEPT !.pc = "delete", !.target = {alert},
                                      !.view = {}])
    /\ UNCHANGED <<db, cached_alerts, cached_from, last_update,
                   last_announce_try, since_attempt, mergeVars, enrichVars, convertVars>>

\* delete_alert is Ok: the rows are gone; clear_alerts calls update_cache
DeleteOk(t) ==
    /\ task[t].pc = "delete"
    /\ \E alert \in task[t].target :
          db' = {row \in db : ~RowMatchesDelete(row, alert)}
    /\ Set(t, [task[t] EXCEPT !.pc = "fetch", !.forced = TRUE, !.target = {},
                              !.delete_issued = TRUE, !.delete_ok = TRUE])
    /\ UNCHANGED <<cached_alerts, cached_from, last_update, readers,
                   last_announce_try, since_attempt, mergeVars, enrichVars, convertVars>>

\* delete_alert is Err: `?` returns it from clear_alerts
DeleteErrThenRefresh(t) ==
    /\ task[t].pc = "delete"
    /\ Set(t, [task[t] EXCEPT !.pc = "fetch", !.forced = TRUE, !.target = {},
                              !.delete_issued = TRUE])
    /\ UNCHANGED <<db, cached_alerts, cached_from, last_update, readers,
                   last_announce_try, since_attempt, mergeVars, enrichVars, convertVars>>

DeleteErr(t) ==
    /\ task[t].pc = "delete"
    /\ Set(t, [task[t] EXCEPT !.pc = "done", !.result = "Err", !.target = {},
                              !.delete_issued = TRUE])
    /\ UNCHANGED <<db, cached_alerts, cached_from, last_update, readers,
                   last_announce_try, since_attempt, mergeVars, enrichVars, convertVars>>

\* the handler has answered; the worker takes the next request
TaskReturn(t) ==
    /\ t \in WebTasks
    /\ task[t].pc = "done"
    /\ Set(t, IdleTask("idle"))
    /\ UNCHANGED <<db, cached_alerts, cached_from, last_update, readers,
                   last_announce_try, since_attempt, mergeVars, enrichVars, convertVars>>

\* run_relay_blocking: relay_alerts has returned `result`; the match logs it
\* and self.last_announce_try = Instant::now()
AttemptEndsStopsOnErr(rec, result) ==
    /\ Set("relay", [rec EXCEPT !.pc = IF result = "Err" THEN "stopped" ELSE "sleep",
                                !.result = result, !.alerts_data = <<>>])
    /\ last_announce_try' = "recent"
    /\ since_attempt' = "recent"

AttemptEndsRecordsOkOnly(rec, result) ==
    /\ Set("relay", [rec EXCEPT !.pc = "sleep", !.result = result,
                                !.alerts_data = <<>>])
    /\ last_announce_try' = IF result = "Ok" THEN "recent" ELSE last_announce_try
    /\ since_attempt' = "recent"

AttemptEnds(rec, result) ==
    /\ Set("relay", [rec EXCEPT !.pc = "sleep", !.result = result,
                                !.alerts_data = <<>>])
    /\ last_announce_try' = "recent"
    /\ since_attempt' = "recent"

\* relay_alerts: the converted and enriched batch, tabulated over every
\* iteration order of every set of alerts the table of the model can yield
RelayTable ==
    {<<order, enrich(definitions, alerts_to_alertmanager(order))>> :
        order \in UNION {OrdersOf(view) : view \in SUBSET PoolAlerts}}

EnrichedBatch(order) == (CHOOSE p \in RelayTable : p[1] = order)[2]

\* a relay_alerts without drop(alerts): the guard lives to the end of the
\* function, across enrich and the POST
RelayConvertKeepsGuard ==
    /\ task["relay"].pc = "holding"
    /\ task["relay"].op = "relay"
    /\ \E order \in OrdersOf(task["relay"].view) :
          \E r \in {EnrichedBatch(order)} :
             \E rec \in {[task["relay"] EXCEPT !.alerts_data = r.alerts,
                                               !.view = {},
                                               !.render_failed = ~r.ok]} :
                IF r.ok
                THEN /\ Set("relay", [rec EXCEPT !.pc = "send"])
                     /\ UNCHANGED <<last_announce_try, since_attempt, readers>>
                ELSE AttemptEnds(rec, "Err") /\ readers' = readers \ {"relay"}
    /\ UNCHANGED <<db, cached_alerts, cached_from, last_update, mergeVars, enrichVars, convertVars>>

\* relay_alerts: alerts_to_alertmanager over the guarded set (in the set's
\* iteration order), drop(alerts), self.enrich(&mut alerts_data)?
RelayConvert ==
    /\ task["relay"].pc = "holding"
    /\ task["relay"].op = "relay"
    /\ readers' = readers \ {"relay"}
    /\ \E order \in OrdersOf(task["relay"].view) :
          \E r \in {EnrichedBatch(order)} :
             \E rec \in {[task["relay"] EXCEPT !.alerts_data = r.alerts,
                                               !.view = {},
                                               !.render_failed = ~r.ok]} :
                IF r.ok
                THEN /\ Set("relay", [rec EXCEPT !.pc = "send"])
                     /\ UNCHANGED <<last_announce_try, since_attempt>>
                ELSE AttemptEnds(rec, "Err")
    /\ UNCHANGED <<db, cached_alerts, cached_from, last_update, mergeVars, enrichVars, convertVars>>

\* relay_alerts: the POST is answered 2xx
SendOk ==
    /\ task["relay"].pc = "send"
    /\ AttemptEnds([task["relay"] EXCEPT !.posted = TRUE], "Ok")
    /\ UNCHANGED <<db, cached_alerts, cached_from, last_update, readers,
                   mergeVars, enrichVars, convertVars>>

\* relay_alerts: the POST fails or is answered with an error status
SendErr ==
    /\ task["relay"].pc = "send"
    /\ AttemptEnds([task["relay"] EXCEPT !.posted = TRUE], "Err")
    /\ UNCHANGED <<db, cached_alerts, cached_from, last_update, readers,
                   mergeVars, enrichVars, convertVars>>

\* a device sends a trap: a row is added to the table
TrapArrives(row) ==
    /\ row \in TrapPool \ db
    /\ db' = db \cup {row}
    /\ UNCHANGED <<cached_alerts, cached_from, last_update, readers,
                   last_announce_try, since_attempt, task, mergeVars, enrichVars, convertVars>>

\* time passes: more than 5 s have gone by since last_update was written
CacheExpires ==
    /\ last_update = "fresh"
    /\ last_update' = "stale"
    /\ UNCHANGED <<db, cached_alerts, cached_from, readers, last_announce_try,
                   since_attempt, task, mergeVars, enrichVars, convertVars>>

\* time passes: the announce duration has gone by since the last attempt
\* ended, which is when last_announce_try was written
IntervalElapses ==
    /\ since_attempt = "recent"
    /\ since_attempt' = "elapsed"
    /\ last_announce_try' = "elapsed"
    /\ UNCHANGED <<db, cached_alerts, cached_from, last_update, readers, task,
                   mergeVars, enrichVars, convertVars>>

Next ==
    \/ \E t \in WebTasks : StartView(t)
    \/ \E t \in WebTasks, hash \in ClientHashes : StartClear(t, hash)
    \/ RelayWake
    \/ \E t \in Tasks : FetchOk(t)
    \/ \E t \in Tasks : FetchErr(t)
    \/ \E t \in Tasks : WriteSet(t)
    \/ \E t \in Tasks : WriteTime(t)
    \/ \E t \in Tasks : ReadGuard(t)
    \/ \E t \in WebTasks : ViewRender(t)
    \/ \E t \in WebTasks : ClearLookup(t)
    \/ \E t \in WebTasks : DeleteOk(t)
    \/ \E t \in WebTasks : DeleteErr(t)
    \/ \E t \in WebTasks : TaskReturn(t)
    \/ RelayConvert
    \/ SendOk
    \/ SendErr
    \/ \E row \in TrapPool : TrapArrives(row)
    \/ CacheExpires
    \/ IntervalElapses

Spec == Init /\ [][Next]_vars

(***************************************************************************)
(* The merge engine on its own: a batch of proto-alerts is merged, and the *)
(* merged set is merged again                                              *)
(***************************************************************************)
MaxBatch == 3

Labels1 == (IfIx :> <<"1">>)
Labels2 == (IfIx :> <<"1">> @@ IfOp :> <<"x">>)

\* proto-alerts: three identities (two differ in the severity alone), two
\* occurrence times each
ProtoPool ==
    {AlertNew(UpTrap, "Critical", CommunityC1, <<tm>>, Labels1) : tm \in 1..2}
        \cup {AlertNew(UpTrap, "Warning", CommunityC1, <<tm>>, Labels1) : tm \in 1..2}
        \cup {AlertNew(Dn, "Critical", CommunityC1, <<tm>>, Labels2) : tm \in 1..2}

Batches == UNION {[1..n -> ProtoPool] : n \in 0..MaxBatch}

MergeInit ==
    /\ db = {}
    /\ cached_alerts = {}
    /\ cached_from = {}
    /\ last_update = "stale"
    /\ readers = {}
    /\ last_announce_try = "elapsed"
    /\ since_attempt = "elapsed"
    /\ task = [t \in Tasks |-> IdleTask(IF t = "relay" THEN "sleep" ELSE "idle")]
    /\ m_pc = "input"
    /\ raw_alerts \in Batches
    /\ merged = {}
    /\ remerged = {}
    /\ EnrichIdle
    /\ ConvertIdle

\* generate_alerts(raw_alerts)
MergeBatch ==
    /\ m_pc = "input"
    /\ merged' = generate_alerts(raw_alerts)
    /\ m_pc' = "merged"
    /\ UNCHANGED <<raw_alerts, remerged, cacheVars, enrichVars, convertVars>>

\* generate_alerts over the merged set, in one of its iteration orders
MergeAgain ==
    /\ m_pc = "merged"
    /\ \E order \in OrdersOf(merged) : remerged' = generate_alerts(order)
    /\ m_pc' = "remerged"
    /\ UNCHANGED <<raw_alerts, merged, cacheVars, enrichVars, convertVars>>

MergeNext == MergeBatch \/ MergeAgain

MergeSpec == MergeInit /\ [][MergeNext]_vars

(***************************************************************************)
(* Enrichment on its own: an outbound alert goes through the loop of       *)
(* apply_all, one definition per step                                      *)
(***************************************************************************)
MaxRules == 2

Note == <<"n", "o", "t", "e">>

\* the entries a rule file can hold: a rule for every alert that sets labels
\* and annotations (reserved names among them), a rule whose template reads
\* a label that another rule adds, a rule that drops labels, and rules whose
\* name pattern is an alternation or matches a part of a name.  The patterns
\* are `.*`, `up`, `u|up`, `u`, and the drop patterns `(I|O).` and `a.*`.
RulePool ==
    { [name |-> ReStar(ReAny),
       labels |-> SomeMap(Site :> <<TplText(<<"s">>), TplLabel(ALERTNAME)>>
                            @@ SEVERITY_LABEL :> <<TplText(<<"x">>)>>),
       annotations |-> SomeMap(Loc :> <<TplText(<<"l">>)>>
                                 @@ ALERTNAME :> <<TplText(<<"x">>)>>),
       drop_labels |-> NoList],
      [name |-> ReCat(ReLit("u"), ReLit("p")),
       labels |-> NoMap,
       annotations |-> SomeMap(Note :> <<TplLabel(Loc)>>),
       drop_labels |-> NoList],
      [name |-> ReStar(ReAny),
       labels |-> NoMap,
       annotations |-> NoMap,
       drop_labels |-> SomeList(<<ReCat(ReAlt(ReLit("I"), ReLit("O")), ReAny),
                                  ReCat(ReLit("a"), ReStar(ReAny))>>)],
      [name |-> ReAlt(ReLit("u"), ReCat(ReLit("u"), ReLit("p"))),
       labels |-> SomeMap(Site :> <<TplText(<<"s">>)>>),
       annotations |-> NoMap,
       drop_labels |-> NoList],
      [name |-> ReLit("u"),
       labels |-> SomeMap(Site :> <<TplText(<<"s">>)>>),
       annotations |-> NoMap,
       drop_labels |-> NoList] }

EnrichInit ==
    /\ CacheInit
    /\ db = {}
    /\ MergeIdle
    /\ ConvertIdle
    /\ rule_files \in UNION {[1..n -> RulePool] : n \in 0..MaxRules}
    /\ e_start \in {AlertmanagerAlertFrom(a) : a \in PoolAlerts}
    /\ e_alert = e_start
    /\ e_prev = e_start
    /\ e_k = 0
    /\ e_res = "none"
    /\ e_pc = IF rule_files = <<>> THEN "done" ELSE "loop"

\* every definition applied to the alert as converted, not as the
\* definitions before left it
EnrichStepFromStart ==
    /\ e_pc = "loop"
    /\ \E r \in {apply(LoadDefinitions(rule_files)[e_k + 1], e_start)} :
          /\ e_alert' = r.alert
          /\ e_res' = IF ~r.ok THEN "Err"
                      ELSE IF r.applied THEN "Ok(true)" ELSE "Ok(false)"
          /\ e_pc' = IF ~r.ok THEN "failed"
                     ELSE IF e_k + 1 = Len(rule_files) THEN "done" ELSE "loop"
    /\ e_prev' = e_alert
    /\ e_k' = e_k + 1
    /\ UNCHANGED <<rule_files, e_start, cacheVars, mergeVars, convertVars>>

\* apply_all: `definition.apply(alert)?` for the next definition
EnrichStep ==
    /\ e_pc = "loop"
    /\ \E r \in {apply(LoadDefinitions(rule_files)[e_k + 1], e_alert)} :
          /\ e_alert' = r.alert
          /\ e_res' = IF ~r.ok THEN "Err"
                      ELSE IF r.applied THEN "Ok(true)" ELSE "Ok(false)"
          /\ e_pc' = IF ~r.ok THEN "failed"
                     ELSE IF e_k + 1 = Len(rule_files) THEN "done" ELSE "loop"
    /\ e_prev' = e_alert
    /\ e_k' = e_k + 1
    /\ UNCHANGED <<rule_files, e_start, cacheVars, mergeVars, convertVars>>

EnrichSpec == EnrichInit /\ [][EnrichStep]_vars

(***************************************************************************)
(* The conversions on their own: a severity string is parsed, a raw name   *)
(* is cleaned, a label set goes through the two passes of pretty_labels    *)
(***************************************************************************)
MaxWords == 2
MaxKeys == 2
MaxRows == 2

\* the words joined into one string
RECURSIVE Concat(_)
Concat(words) == IF words = <<>> THEN <<>> ELSE Head(words) \o Concat(Tail(words))

\* The input of a conversion: a severity string made of up to MaxWords words
\* (the keywords in several spellings, and words that are no keyword), a raw
\* name made of up to MaxWords words, a label map of up to MaxKeys keys, or
\* up to MaxRows rows of snmp_trap: the two rows of the table, rows without a
\* name, without a community and without a time, and a row whose severity
\* column holds no severity keyword.
ConvertInit ==
    /\ CacheInit
    /\ db = {}
    /\ MergeIdle
    /\ EnrichIdle
    /\ c_pc = "input"
    /\ c_mid = <<>>
    /\ c_out = <<>>
    /\ \/ c_in \in
        {[kind |-> "severity", v |-> Concat(ws)] :
            ws \in UNION {[1..n ->
                {<<"c", "r", "i", "t">>,
                 <<"E", "R", "R", "O", "R">>,
                 <<"M", "a", "j", "o", "r">>,
                 <<"h", "i", "g", "h">>,
                 <<"w", "a", "r", "n">>,
                 <<"M", "I", "N", "O", "R">>,
                 <<"m", "i", "d">>,
                 <<"i", "n", "f", "o">>,
                 <<"N", "o", "r", "m", "a", "l">>,
                 <<"d", "e", "b", "u", "g">>,
                 <<"L", "O", "W">>,
                 <<"o", "k">>,
                 <<"x">>}] : n \in 0..MaxWords}}
       \/ c_in \in
        {[kind |-> "name", v |-> Concat(ws)] :
            ws \in UNION {[1..n ->
                {<<"L", "i", "n", "k", "D", "o", "w", "n">>,
                 <<"T", "r", "a", "p">>,
                 <<"U", "p", "T", "r", "a", "p">>,
                 <<"U", "p">>}] : n \in 0..MaxWords}}
       \/ c_in \in
        {[kind |-> "labels", v |-> labels] :
            labels \in UNION {[keys -> {<<"x">>, <<"y">>}] :
                keys \in {ks \in SUBSET
                {<<"t", "r", "a", "p", "A", "l", "a", "r", "m", "N", "a", "m", "e">>,
                 <<"t", "r", "a", "p", "A", "l", "a", "r", "m", "V", "a", "l", "u", "e">>,
                 <<"a", "b">>,
                 <<"a", "b", "a", "b">>,
                 <<"a", "b", "c">>,
                 <<"a", "c", "c">>,
                 <<"b", "c">>} : Cardinality(ks) <= MaxKeys}}}
       \/ c_in \in
        {[kind |-> "rows", v |-> traps] :
            traps \in UNION {[1..n ->
                {RowUp,
                 RowDn,
                 TrapRow(None, Some(CommunityC1), [some |-> TRUE, v |-> 1],
                         Some(<<"1">>), None, Some(<<"m", "a", "j", "o", "r">>)),
                 TrapRow(Some(UpTrap), None, [some |-> TRUE, v |-> 1],
                         Some(<<"1">>), None, Some(<<"m", "a", "j", "o", "r">>)),
                 TrapRow(Some(Dn), Some(CommunityC1), NoTime,
                         Some(<<"2">>), Some(<<"x">>), Some(<<"m", "i", "n", "o", "r">>)),
                 TrapRow(Some(UpTrap), Some(CommunityC1), [some |-> TRUE, v |-> 2],
                         Some(<<"1">>), None, Some(<<"o", "k">>)),
                 TrapRow(Some(UpTrap), Some(CommunityC1), [some |-> TRUE, v |-> 3],
                         Some(<<"1">>), None, Some(<<"m", "i", "n", "o", "r">>)),
                 TrapRow(Some(UpTrap), Some(CommunityC1), [some |-> TRUE, v |-> 4],
                         Some(<<"1">>), Some(<<"x">>), Some(<<"m", "a", "j", "o", "r">>))}] :
                n \in 0..MaxRows}}

\* s.parse::<Severity>()
ParseSeverity ==
    /\ c_pc = "input"
    /\ c_in.kind = "severity"
    /\ c_out' = SeverityFromStr(c_in.v)
    /\ c_pc' = "done"
    /\ UNCHANGED <<c_in, c_mid, cacheVars, mergeVars, enrichVars>>

\* Alert::pretty_name
CleanName ==
    /\ c_pc = "input"
    /\ c_in.kind = "name"
    /\ c_out' = clean_alert_name(c_in.v)
    /\ c_pc' = "done"
    /\ UNCHANGED <<c_in, c_mid, cacheVars, mergeVars, enrichVars>>

\* fetch_alerts: map_traps_to_alerts(&traps)
MapTraps ==
    /\ c_pc = "input"
    /\ c_in.kind = "rows"
    /\ c_out' = map_traps_to_alerts(c_in.v)
    /\ c_pc' = "done"
    /\ UNCHANGED <<c_in, c_mid, cacheVars, mergeVars, enrichVars>>

\* Alert::pretty_labels: _ = greedy_truncate_labels_prefix(&mut labels)
TruncatePrefix ==
    /\ c_pc = "input"
    /\ c_in.kind = "labels"
    /\ c_mid' = greedy_truncate_labels_prefix(c_in.v)
    /\ c_pc' = "prefixed"
    /\ UNCHANGED <<c_in, c_out, cacheVars, mergeVars, enrichVars>>

\* Alert::pretty_labels: _ = greedy_truncate_labels_suffix(&mut labels)
TruncateSuffix ==
    /\ c_pc = "prefixed"
    /\ c_out' = greedy_truncate_labels_suffix(c_mid)
    /\ c_pc' = "done"
    /\ UNCHANGED <<c_in, c_mid, cacheVars, mergeVars, enrichVars>>

\* clear_alerts on the fetched set: the alert is found by its hash and
\* delete_alert runs the DELETE of make_label_query on the table
DeleteAlert ==
    /\ c_pc = "done"
    /\ c_in.kind = "rows"
    /\ \E alert \in c_out :
          c_mid' = [target |-> alert,
                    left |-> SelectSeq(c_in.v,
                                LAMBDA row : ~RowMatchesDelete(row, alert))]
    /\ c_pc' = "cleared"
    /\ UNCHANGED <<c_in, c_out, cacheVars, mergeVars, enrichVars>>

ConvertNext ==
    \/ ParseSeverity
    \/ CleanName
    \/ TruncatePrefix
    \/ TruncateSuffix
    \/ MapTraps
    \/ DeleteAlert

ConvertSpec == ConvertInit /\ [][ConvertNext]_vars

(***************************************************************************)
(* The relay loop under the scheduling the runtime gives it: time passes,  *)
(* the timer fires, the queries and the POST return, the handlers that     *)
(* hold a read guard release it, and the write lock (tokio's RwLock is     *)
(* fair, first come first served) is granted once the readers are gone.    *)
(***************************************************************************)
Fairness ==
    /\ WF_vars(IntervalElapses)
    /\ WF_vars(RelayWake)
    /\ WF_vars(FetchErr("relay") \/ FetchOk("relay"))
    /\ SF_vars(WriteSet("relay"))
    /\ WF_vars(WriteTime("relay"))
    /\ WF_vars(ReadGuard("relay"))
    /\ WF_vars(RelayConvert)
    /\ WF_vars(SendOk \/ SendErr)
    /\ \A t \in WebTasks : WF_vars(ViewRender(t) \/ ClearLookup(t))
    /\ \A t \in WebTasks : SF_vars(WriteSet(t))
    /\ \A t \in WebTasks : WF_vars(WriteTime(t))
    /\ \A t \in WebTasks : WF_vars(ReadGuard(t))

FairSpec == Spec /\ Fairness

(***************************************************************************)
(* Properties                                                              *)
(***************************************************************************)
Refreshing(t) == task[t].pc \in {"fetch", "write_set", "write_time"}

\* the step of task t in which fetch_alerts returned Err
FetchFailedStep(t) ==
    /\ task[t].pc = "fetch"
    /\ task'[t].pc \in {"read", "done"}

\* C1: when the fetch of a refresh fails (staleness-triggered or forced), the
\* cached set and last_update are what they were before the refresh, no error
\* is returned (the forced refresh of clear_alerts ends in Ok, cached_alerts
\* goes on to the read), and the read that follows hands out the cached set.
C1_FailedFetchKeepsCache ==
    [][\A t \in Tasks :
          /\ FetchFailedStep(t) =>
                /\ cached_alerts' = cached_alerts
                /\ last_update' = last_update
                /\ task'[t].result # "Err"
                /\ task[t].forced =>
                      (task'[t].pc = "done" /\ task'[t].result = "Ok")
                /\ ~task[t].forced => task'[t].pc = "read"
          /\ (task[t].pc = "read" /\ task[t].fetch_failed
                /\ task'[t].pc = "holding") =>
                /\ task'[t].view = cached_alerts
                /\ cached_alerts' = cached_alerts]_vars

\* a reader whose refresh failed holds the non-empty set cached before
C1_Witness ==
    \E t \in Tasks :
        /\ task[t].pc = "holding"
        /\ task[t].fetch_failed
        /\ task[t].view # {}
        /\ task[t].view = cached_alerts
        /\ last_update = "stale"

\* C2 as stated: clear_alerts that issued the delete has always run the
\* forced cache refresh when it returns, whether the delete succeeded or not.
C2_RefreshWhateverTheDelete ==
    \A t \in WebTasks :
        (task[t].pc = "done" /\ task[t].delete_issued) => task[t].refreshed

\* C2: clear_alerts runs the forced refresh exactly when the delete it issued
\* succeeded; when the delete fails, its error is returned and no refresh is
\* run.
C2_RefreshOnlyAfterDeleteOk ==
    \A t \in WebTasks :
        (task[t].pc = "done" /\ task[t].delete_issued) =>
            /\ task[t].refreshed <=> task[t].delete_ok
            /\ task[t].delete_ok => task[t].result = "Ok"
            /\ ~task[t].delete_ok => task[t].result = "Err"

\* clear_alerts has returned the error of a failed delete
C2_Witness ==
    \E t \in WebTasks :
        /\ task[t].pc = "done"
        /\ task[t].op = "clear"
        /\ task[t].delete_issued
        /\ ~task[t].delete_ok
        /\ ~task[t].refreshed
        /\ task[t].result = "Err"

C4_RefreshesExclusive ==
    Cardinality({t \in Tasks : Refreshing(t)}) <= 1

\* C5: the cached set, and so every view a reader holds, is the merged
\* result of the rows of one fetch (or the initial empty set): never a
\* partly replaced set, never a mix of two refreshes.
C5_ViewIsOneFetch ==
    /\ \E traps \in OrdersOf(cached_from) :
          cached_alerts = map_traps_to_alerts(traps)
    /\ \A t \in readers :
          /\ task[t].pc = "holding"
          /\ task[t].view = cached_alerts

\* a reader holds a non-empty view while another task's refresh has fetched
\* a different set and waits for the write lock
C5_Witness ==
    \E t \in readers : \E u \in Tasks \ {t} :
        /\ task[t].view # {}
        /\ task[u].pc = "write_set"
        /\ task[u].alerts # task[t].view

C7_AttemptTimeAndInterval ==
    [][/\ (task["relay"].pc # "sleep" /\ task'["relay"].pc = "sleep") =>
             (last_announce_try' = "recent" /\ since_attempt' = "recent")
       /\ (task["relay"].pc = "sleep" /\ task'["relay"].pc # "sleep") =>
             (since_attempt = "elapsed" /\ last_announce_try = "elapsed")]_vars

\* a delivery has failed and the interval since it has not yet passed
C7_Witness ==
    /\ task["relay"].pc = "sleep"
    /\ task["relay"].result = "Err"
    /\ task["relay"].posted
    /\ last_announce_try = "recent"

\* C8: clear_alerts with a hash that no alert of the cached set has returns
\* Ok, issues no delete and runs no forced refresh.
C8_UnknownHashIsNoOp ==
    \A t \in WebTasks :
        (task[t].pc = "done" /\ task[t].op = "clear" /\ task[t].missed) =>
            /\ task[t].result = "Ok"
            /\ ~task[t].delete_issued
            /\ ~task[t].refreshed
            /\ ~task[t].forced

\* clear_alerts has returned for a hash that was not in the non-empty cache
C8_Witness ==
    \E t \in WebTasks :
        /\ task[t].pc = "done"
        /\ task[t].op = "clear"
        /\ task[t].missed
        /\ task[t].result = "Ok"
        /\ cached_alerts # {}

\* the proto-alerts of the batch with the identity of alert a
SameIdentity(a) ==
    {i \in 1..Len(raw_alerts) : Identity(raw_alerts[i]) = Identity(a)}

\* C9: the merge of a batch has exactly one alert for every distinct
\* (name, severity, community, labels) of the batch, and the times of that
\* alert hold the timestamp of every proto-alert of that identity, each
\* once, whatever the order of the batch.
C9_OneAlertPerIdentity ==
    m_pc # "input" =>
        /\ {Identity(a) : a \in merged} =
              {Identity(raw_alerts[i]) : i \in 1..Len(raw_alerts)}
        /\ Cardinality(merged) = Cardinality({Identity(a) : a \in merged})
        /\ \A a \in merged :
              /\ Range(a.times) =
                    {raw_alerts[i].times[1] : i \in SameIdentity(a)}
              /\ Len(a.times) = Cardinality(SameIdentity(a))

\* a batch of three in which two proto-alerts share an identity and differ
\* in the time, and a third differs from them in the severity alone
C9_Witness ==
    /\ m_pc = "merged"
    /\ Len(raw_alerts) = 3
    /\ Cardinality(merged) = 2
    /\ \E a \in merged : Cardinality(Range(a.times)) = 2
    /\ \E a, b \in merged : a.severity # b.severity /\ a.name = b.name

\* C10: merging the merged set again gives the same set (same identities,
\* hashes and times), and the merge of a single proto-alert is that alert.
C10_MergeIdempotent ==
    /\ m_pc = "remerged" => remerged = merged
    /\ (m_pc # "input" /\ Len(raw_alerts) = 1) => merged = {raw_alerts[1]}

\* a merged set with an alert of two occurrences has been merged again
C10_Witness ==
    /\ m_pc = "remerged"
    /\ Cardinality(merged) >= 2
    /\ \E a \in merged : Len(a.times) >= 2

(***************************************************************************)
(* Properties of the enrichment                                            *)
(***************************************************************************)
Reserved == {ALERTNAME, SEVERITY_LABEL, CommunityLabel}

\* the pattern matches the text from its first to its last character
Matches(re, text) ==
    \E i \in 1..Len(MatchEnds(re, text, 0)) : MatchEnds(re, text, 0)[i] = Len(text)

\* a drop pattern of the definition matches the label name
DropMatches(def, n) ==
    \E i \in 1..Len(def.drop_labels) : Matches(def.drop_labels[i], n)

\* the definition that the last step of the loop applied
LastDef == DefinitionTryFrom(rule_files[e_k])

\* C11: whatever definitions were applied so far, the labels alertname,
\* severity and the community label are present and hold the values that the
\* conversion of the alert gave them.
C11_ReservedLabelsKept ==
    e_pc # "off" =>
        \A r \in Reserved :
            r \in DOMAIN e_alert.labels /\ e_alert.labels[r] = e_start.labels[r]

\* a definition that renders a label named alertname was applied, then one
\* whose drop pattern matches alertname; the other label of the first is there
C11_Witness ==
    /\ e_k = 2
    /\ e_res = "Ok(true)"
    /\ ALERTNAME \in DOMAIN DefinitionTryFrom(rule_files[1]).label_templates
    /\ DropMatches(LastDef, ALERTNAME)
    /\ Loc \in DOMAIN e_alert.labels

\* C12: when a definition was applied, every entry of the `labels` map of its
\* rule file (but the reserved names and the dropped ones) is a label of the
\* alert with the rendered value, and every entry of the `annotations` map is
\* an annotation of the alert.
C12_LabelsBecomeLabels ==
    e_res = "Ok(true)" =>
        /\ \A n \in (DOMAIN rule_files[e_k].labels.v) \ Reserved :
              DropMatches(LastDef, n) \/
                 (/\ n \in DOMAIN e_alert.labels
                  /\ e_alert.labels[n] =
                        Render(rule_files[e_k].labels.v[n], e_prev.labels).val)
        /\ \A n \in DOMAIN rule_files[e_k].annotations.v :
              n \in DOMAIN e_alert.annotations

\* C13: when a definition was applied, a label name of the set after the
\* addition is still a label exactly when it is reserved or no drop pattern
\* of the definition matches it.
C13_EveryMatchedLabelDropped ==
    e_res = "Ok(true)" =>
        \A n \in (DOMAIN e_prev.labels)
                    \cup ((DOMAIN LastDef.label_templates) \ Reserved) :
            (n \in DOMAIN e_alert.labels) <=>
                (n \in Reserved \/ ~DropMatches(LastDef, n))

\* the labels that the templates producing annotations are rendered against:
\* those left by the definitions before, with the labels just added
LabelsSeen ==
    [n \in (DOMAIN e_prev.labels)
              \cup ((DOMAIN LastDef.label_templates) \ Reserved) |->
        IF n \in (DOMAIN LastDef.label_templates) \ Reserved
        THEN Render(LastDef.label_templates[n], e_prev.labels).val
        ELSE e_prev.labels[n]]

\* C14: step k of the loop applies the k-th definition in load order to the
\* alert as the definitions 1..k-1 left it: the labels it adds are its
\* templates rendered against those labels, its annotations are rendered
\* against them with the labels just added, a step fails only when one of
\* its templates reads a label that is not among them, and the loop as a
\* whole yields what apply_all yields.
C14_RulesSeeEarlierLabels ==
    /\ e_res = "Err" =>
          \/ \E n \in DOMAIN LastDef.label_templates :
                ~Render(LastDef.label_templates[n], e_prev.labels).ok
          \/ \E n \in DOMAIN LastDef.annotation_templates :
                ~Render(LastDef.annotation_templates[n], LabelsSeen).ok
    /\ e_res = "Ok(true)" =>
          /\ \A n \in (DOMAIN LastDef.label_templates) \ Reserved :
                n \in DOMAIN e_alert.labels =>
                    e_alert.labels[n] =
                        Render(LastDef.label_templates[n], e_prev.labels).val
          /\ \A n \in DOMAIN LastDef.annotation_templates :
                /\ n \in DOMAIN e_alert.annotations
                /\ e_alert.annotations[n] =
                      Render(LastDef.annotation_templates[n], LabelsSeen).val
    /\ e_pc \in {"done", "failed"} =>
          e_alert = apply_all(LoadDefinitions(rule_files), e_start).alert

\* the second definition rendered a label from a label that the alert did
\* not have when converted and that the first definition added
C14_Witness ==
    /\ e_k = 2
    /\ e_res = "Ok(true)"
    /\ Loc \notin DOMAIN e_start.labels
    /\ Loc \in DOMAIN e_prev.labels
    /\ Note \in DOMAIN e_alert.labels
    /\ e_alert.labels[Note] = e_prev.labels[Loc]

\* C15: a definition takes effect exactly when its name pattern matches the
\* whole display name of the alert, and one that does not take effect leaves
\* the alert as it was.
C15_FiresIffWholeNameMatches ==
    e_k >= 1 =>
        /\ (e_res # "Ok(false)") <=> Matches(rule_files[e_k].name, AlertName(e_prev))
        /\ e_res = "Ok(false)" => e_alert = e_prev

(***************************************************************************)
(* Properties of the conversions                                           *)
(***************************************************************************)
\* the labels {"trapAlarmName": "x", "trapAlarmValue": "y"}
ExampleLabels ==
    (<<"t", "r", "a", "p", "A", "l", "a", "r", "m", "N", "a", "m", "e">> :> <<"x">>
        @@ <<"t", "r", "a", "p", "A", "l", "a", "r", "m", "V", "a", "l", "u", "e">> :> <<"y">>)

\* C16 (as stated): the labels of the example are sanitized to
\* {"Name": "x", "Value": "y"}.
C16_ExampleKeepsNameValue ==
    (c_pc = "done" /\ c_in.kind = "labels" /\ c_in.v = ExampleLabels) =>
        c_out = (<<"N", "a", "m", "e">> :> <<"x">> @@ <<"V", "a", "l", "u", "e">> :> <<"y">>)

\* C16 (corrected): the prefix pass strips "trapAlarm" and leaves
\* {"Name": "x", "Value": "y"}; the suffix pass then strips the common
\* suffix "e" of Name and Value, and the result is {"Nam": "x", "Valu": "y"}.
C16_ExampleLosesCommonE ==
    (c_pc \in {"prefixed", "done"} /\ c_in.kind = "labels"
        /\ c_in.v = ExampleLabels) =>
        /\ c_mid = (<<"N", "a", "m", "e">> :> <<"x">> @@ <<"V", "a", "l", "u", "e">> :> <<"y">>)
        /\ c_pc = "done" => c_out = (<<"N", "a", "m">> :> <<"x">> @@ <<"V", "a", "l", "u">> :> <<"y">>)

C16_Witness ==
    /\ c_pc = "done"
    /\ c_in.kind = "labels" /\ c_in.v = ExampleLabels
    /\ DOMAIN c_out = {<<"N", "a", "m">>, <<"V", "a", "l", "u">>}

\* C17: a string that contains (in any case) crit, error, major or high
\* parses to Critical; otherwise one that contains warn, minor or mid parses
\* to Warning; otherwise one that contains info, normal, debug or low parses
\* to Info; any other string fails to parse.
C17_SeverityParsePriority ==
    (c_pc = "done" /\ c_in.kind = "severity") =>
        IF \E c \in CRITICAL : contains(to_lowercase(c_in.v), c)
        THEN c_out.ok /\ c_out.val = "Critical"
        ELSE IF \E w \in WARN : contains(to_lowercase(c_in.v), w)
        THEN c_out.ok /\ c_out.val = "Warning"
        ELSE IF \E i \in INFO : contains(to_lowercase(c_in.v), i)
        THEN c_out.ok /\ c_out.val = "Info"
        ELSE ~c_out.ok

\* C18: the display name is the raw name without its last four characters
\* when the raw name ends in "Trap", and the raw name itself otherwise.
C18_TrailingTrapRemoved ==
    (c_pc = "done" /\ c_in.kind = "name") =>
        c_out = IF ends_with(c_in.v, Trap)
                THEN SubSeq(c_in.v, 1, Len(c_in.v) - Len(Trap))
                ELSE c_in.v

\* the longest string that every key of S starts with / ends with
LongestCommonPrefix(S) ==
    IF S = {} THEN <<>>
    ELSE LET k0 == CHOOSE k \in S : TRUE
             common == {n \in 0..Len(k0) :
                          \A k \in S : starts_with(k, SubSeq(k0, 1, n))}
         IN SubSeq(k0, 1, CHOOSE n \in common : \A m \in common : m <= n)

LongestCommonSuffix(S) ==
    IF S = {} THEN <<>>
    ELSE LET k0 == CHOOSE k \in S : TRUE
             common == {n \in 0..Len(k0) :
                          \A k \in S :
                             ends_with(k, SubSeq(k0, Len(k0) - n + 1, Len(k0)))}
         IN SubSeq(k0, Len(k0) - (CHOOSE n \in common : \A m \in common : m <= n) + 1,
                   Len(k0))

\* the key k of the key set S without the longest common prefix of S
WithoutPrefix(k, S) == SubSeq(k, Len(LongestCommonPrefix(S)) + 1, Len(k))

\* the key k of S with the common prefix removed once from its front, and the
\* common suffix of the keys so stripped removed once from its end
StrippedOnce(k, S) ==
    SubSeq(WithoutPrefix(k, S), 1,
           Len(WithoutPrefix(k, S))
               - Len(LongestCommonSuffix({WithoutPrefix(x, S) : x \in S})))

\* C19: the sanitized map holds, for every key k of the label set, the value
\* of k under the key obtained from k by removing the longest common prefix
\* once and then the longest common suffix once, and nothing else.
C19_StripsOnePrefixOneSuffix ==
    (c_pc = "done" /\ c_in.kind = "labels") =>
        /\ DOMAIN c_out = {StrippedOnce(k, DOMAIN c_in.v) : k \in DOMAIN c_in.v}
        /\ \A k \in DOMAIN c_in.v :
              c_out[StrippedOnce(k, DOMAIN c_in.v)] = c_in.v[k]

\* the key of S that comes last in the iteration order of a BTreeMap
LastKey(S) == CHOOSE k \in S : \A o \in S : o = k \/ StrLess(o, k)

\* C20: after a pass, every key of the result holds the value of the last
\* (in iteration order) of the keys that the pass stripped to it.
C20_LaterKeyWins ==
    /\ (c_pc \in {"prefixed", "done"} /\ c_in.kind = "labels") =>
          \A n \in DOMAIN c_mid :
             c_mid[n] = c_in.v[LastKey({k \in DOMAIN c_in.v :
                 trim_start_matches(k, find_greedy_label_prefix(c_in.v)) = n})]
    /\ (c_pc = "done" /\ c_in.kind = "labels") =>
          \A n \in DOMAIN c_out :
             c_out[n] = c_mid[LastKey({k \in DOMAIN c_mid :
                 trim_end_matches(k, find_greedy_label_suffix(c_mid)) = n})]

\* two keys with different values were stripped to one key, which holds the
\* value of the later key
C20_Witness ==
    /\ c_pc = "prefixed"
    /\ Cardinality(DOMAIN c_in.v) = 2
    /\ Cardinality(DOMAIN c_mid) = 1
    /\ \E k \in DOMAIN c_in.v :
          /\ c_in.v[k] # c_in.v[LastKey(DOMAIN c_in.v)]
          /\ \A n \in DOMAIN c_mid : c_mid[n] = c_in.v[LastKey(DOMAIN c_in.v)]

\* C21: the one label of an alert with exactly one label is keyed by the
\* empty string after the prefix pass already, with its value unchanged, and
\* that entry is what pretty_labels gives the view and what the outbound
\* alert carries next to its reserved labels.
C21_SingleLabelGetsEmptyKey ==
    (c_pc \in {"prefixed", "done"} /\ c_in.kind = "labels"
        /\ Cardinality(DOMAIN c_in.v) = 1) =>
        \A k \in DOMAIN c_in.v :
            /\ c_mid = (<<>> :> c_in.v[k])
            /\ c_pc = "done" =>
                  /\ c_out = (<<>> :> c_in.v[k])
                  /\ pretty_labels(AlertNew(UpTrap, "Critical", CommunityC1,
                                            <<1>>, c_in.v)) = c_out
                  /\ \E am \in {AlertmanagerAlertFrom(
                                     AlertNew(UpTrap, "Critical", CommunityC1,
                                              <<1>>, c_in.v))} :
                        Restrict(am.labels, (DOMAIN am.labels) \ Reserved)
                            = (<<>> :> c_in.v[k])

C21_Witness ==
    /\ c_pc = "done"
    /\ c_in.kind = "labels"
    /\ Cardinality(DOMAIN c_in.v) = 1
    /\ DOMAIN c_out = {<<>>}
    /\ <<>> \notin DOMAIN c_in.v

\* the row holds the three mandatory columns
HasMandatory(row) == row.name.some /\ row.community.some /\ row.time.some

\* the rows of the batch that hold the mandatory columns, in their order
RECURSIVE ValidRows(_)
ValidRows(traps) ==
    IF traps = <<>> THEN <<>>
    ELSE IF HasMandatory(Head(traps)) THEN <<Head(traps)>> \o ValidRows(Tail(traps))
    ELSE ValidRows(Tail(traps))

\* C22: the alert set of a batch is the merge of its rows that have name,
\* community and time (as if the other rows were not in the batch), and every
\* such row is found in it: under its name and community, an alert holds its
\* time.
C22_InvalidRowsSkipped ==
    (c_pc = "done" /\ c_in.kind = "rows") =>
        /\ c_out = map_traps_to_alerts(ValidRows(c_in.v))
        /\ \A i \in 1..Len(c_in.v) :
              HasMandatory(c_in.v[i]) =>
                 \E a \in c_out :
                    /\ a.name = c_in.v[i].name.v
                    /\ a.community = c_in.v[i].community.v
                    /\ c_in.v[i].time.v \in Range(a.times)
        /\ \A a \in c_out :
              \E i \in 1..Len(c_in.v) :
                 HasMandatory(c_in.v[i]) /\ a.name = c_in.v[i].name.v

\* a row without a mandatory column came before a valid row, whose alert is
\* in the set
C22_Witness ==
    /\ c_pc = "done"
    /\ c_in.kind = "rows"
    /\ Len(c_in.v) = 2
    /\ ~HasMandatory(c_in.v[1])
    /\ HasMandatory(c_in.v[2])
    /\ Cardinality(c_out) = 1

\* the column name contains "severity", in any case
SeverityLike(k) == \E sv \in SEVERITY : contains(to_lowercase(k), sv)

\* C23: no alert of the set has a label whose name contains "severity", and
\* the alert of a valid row has the severity that the row's severity column
\* parses to, or Critical when the row has no such column or its value does
\* not parse.
C23_SeverityColumnNeverALabel ==
    (c_pc = "done" /\ c_in.kind = "rows") =>
        /\ \A a \in c_out : \A k \in DOMAIN a.labels : ~SeverityLike(k)
        /\ \A i \in 1..Len(c_in.v) :
              HasMandatory(c_in.v[i]) =>
                 \E a \in c_out :
                    /\ a.name = c_in.v[i].name.v
                    /\ c_in.v[i].time.v \in Range(a.times)
                    /\ a.severity =
                          IF \E k \in DOMAIN c_in.v[i].cols :
                                /\ SeverityLike(k)
                                /\ c_in.v[i].cols[k].some
                                /\ SeverityFromStr(c_in.v[i].cols[k].v).ok
                          THEN SeverityFromStr(c_in.v[i].cols[IfSeverity].v).val
                          ELSE "Critical"

\* C24: a call of cached_alerts starts a fetch exactly when it finds
\* last_update stale (as it is from construction on); it takes the read guard,
\* and so returns its view, only after that refresh attempt has ended (the
\* fetch failed, or set and timestamp were written), or at once when it found
\* the cache fresh; a fetch is started by nothing else but a stale entry and
\* the forced refresh of clear_alerts; and a failed fetch leaves last_update
\* as it was, so that an entry that follows finds it stale again.
C24_StaleReadRefreshesFirst ==
    [][\A t \in Tasks :
          /\ (task[t].pc \in {"idle", "sleep"} /\ task'[t].pc \notin {"idle", "sleep"}) =>
                task'[t].pc = IF last_update = "stale" THEN "fetch" ELSE "read"
          /\ (task[t].pc # "read" /\ task'[t].pc = "read") =>
                \/ task[t].pc \in {"idle", "sleep"} /\ last_update = "fresh"
                \/ task[t].pc = "fetch" /\ task'[t].fetch_failed /\ ~task[t].forced
                \/ task[t].pc = "write_time" /\ last_update' = "fresh" /\ ~task[t].forced
          /\ (task[t].pc # "holding" /\ task'[t].pc = "holding") =>
                task[t].pc = "read" /\ task'[t].view = cached_alerts
          /\ (task[t].pc # "fetch" /\ task'[t].pc = "fetch") =>
                \/ task[t].pc \in {"idle", "sleep"} /\ last_update = "stale"
                \/ task[t].pc = "delete" /\ task'[t].forced
          /\ (task[t].pc = "fetch" /\ task'[t].pc \in {"read", "done"}) =>
                last_update' = last_update /\ task'[t].fetch_failed]_vars

\* a read whose refresh failed holds its view, the timestamp is still stale,
\* and the read of another task that came after has started a fetch
C24_Witness ==
    /\ last_update = "stale"
    /\ \E t \in Tasks : \E u \in Tasks \ {t} :
          /\ task[t].pc = "holding"
          /\ task[t].fetch_failed
          /\ task[u].pc = "fetch"
          /\ ~task[u].forced

\* C25: after clear_alerts has deleted the rows of an alert, every row of the
\* table that converts to an alert of another identity (name, severity,
\* community, labels) is still in the table, and every row of the alert's own
\* identity is gone.
C25_OnlyRowsOfThatIdentityDeleted ==
    (c_pc = "cleared" /\ c_in.kind = "rows") =>
        \A i \in 1..Len(c_in.v) :
           HasMandatory(c_in.v[i]) =>
              \A a \in RowToAlert(c_in.v[i]).val :
                 (c_in.v[i] \in Range(c_mid.left)) <=>
                    (Identity(a) # Identity(c_mid.target))

\* clear_alerts(hash) has returned Ok after its delete and its refresh both
\* succeeded
ClearSucceeded(t) ==
    /\ task[t].op = "clear"
    /\ task[t].pc = "done"
    /\ task[t].result = "Ok"
    /\ task[t].delete_ok
    /\ task[t].refreshed
    /\ ~task[t].fetch_failed

\* C26: once clear_alerts(hash) has returned success, with its delete and its
\* refresh both succeeding, and while the table holds no row of that identity,
\* no task that takes the read guard afterwards gets a view with an alert of
\* that hash, whichever refreshes of other tasks ran concurrently.
C26_ClearedAlertStaysGone ==
    [][\A t \in WebTasks : \A u \in Tasks :
          (/\ ClearSucceeded(t)
           /\ \A row \in db : \A a \in RowToAlert(row).val : a.hash # task[t].hash
           /\ task[u].pc = "read"
           /\ task'[u].pc = "holding")
              => \A a \in task'[u].view : a.hash # task[t].hash]_vars

\* C27: a task holds a read guard on the alert set only between taking it
\* and the conversion, clone or collection that follows at once: never while
\* it fetches, deletes, delivers, or waits for the write lock or for the
\* guard itself (the guards on last_update and the write guard on the set
\* are temporaries of one statement without a suspension point, so no state
\* has a task holding one of them); and every task that waits for the write
\* lock or for the read guard of the set gets it.
C27_LocksNeverDeadlock ==
    /\ [](\A t \in Tasks : (t \in readers) <=> (task[t].pc = "holding"))
    /\ \A t \in Tasks : (task[t].pc = "write_set") ~> (task[t].pc = "write_time")
    /\ \A t \in Tasks : (task[t].pc = "write_time") ~> (last_update = "fresh")
    /\ \A t \in Tasks : (task[t].pc = "read") ~> (task[t].pc = "holding")
    /\ \A t \in Tasks : (task[t].pc = "holding") ~> (t \notin readers)

\* a refresh waits for the write lock of the set while the other task holds
\* a read guard on it
C27_Witness ==
    \E t \in Tasks : \E u \in readers \ {t} :
        /\ task[t].pc = "write_set"
        /\ task[u].pc = "holding"
        /\ task[u].view # {}

====
